---- MODULE Spec2Model ----
(***************************************************************************)
(* Model of macro-indicators (src/main.py): get_data fetches one FRED      *)
(* series and normalises it into a date-indexed table; main runs get_data  *)
(* for every configured series on a thread pool, collects the non-empty    *)
(* tables in completion order, outer-joins them on date, sorts the rows,   *)
(* reorders the columns and writes economic_indicators.csv.                *)
(*                                                                         *)
(* A DataFrame is a record [index, columns, data]: index is the sequence   *)
(* of row labels, columns the sequence of column names, data[i][j] the     *)
(* cell of row i and column j.  Strings are the program's strings.         *)
(*                                                                         *)
(* Logging and the removal of leftover per-series files (lines 120-125)    *)
(* change nothing the run reads or writes afterwards and are left out.     *)
(***************************************************************************)
EXTENDS Integers, Sequences, FiniteSets, TLC

(* ---------------------------- bounds ----------------------------------- *)

\* number of entries of SERIES_IDS the model configures
NumSeries == 3
\* number of distinct calendar dates an upstream response may mention
NumDates == 2
\* largest number of observations in one upstream response
MaxObs == 2

(* ------------------------- configuration ------------------------------- *)

\* display names of SERIES_IDS, in configured order
AllSeriesNames ==
  << "unemployment Ratio",
     "Real-time Sahm Rule Recession Indicator",
     "Initial Claims",
     "All Employees, Construction" >>

SERIES_IDS == SubSeq(AllSeriesNames, 1, NumSeries)

Series == 1..NumSeries

max_workers == 10

(* ------------------------- upstream responses -------------------------- *)

AllDates == << "2020-01-01", "2020-01-02", "2020-01-03", "2020-01-04" >>

Dates == { AllDates[i] : i \in 1..NumDates }

\* the "value" strings of an observation: FRED sends numbers as strings and
\* "." for a missing observation
Values == { "3.5", "." }

\* the value strings tried on get_data alone
DirectValues == { "3.5", "4", ".", "" }

Observation(V) == [ date : Dates, value : V ]

RECURSIVE SeqsUpTo(_, _)
SeqsUpTo(S, n) ==
  IF n = 0 THEN { << >> }
  ELSE LET shorter == SeqsUpTo(S, n - 1)
       IN  shorter \cup { Append(q, x) : q \in { r \in shorter : Len(r) = n - 1 }, x \in S }

ObsLists(V) == SeqsUpTo(Observation(V), MaxObs)

\* key order of one observation object of the API, plus one field that is
\* neither date, value nor realtime metadata
FieldOrder == << "realtime_start", "realtime_end", "date", "value", "note" >>

FieldSets ==
  { { "realtime_start", "realtime_end", "date", "value" },
    { "realtime_start", "realtime_end", "date", "value", "note" },
    { "realtime_start", "realtime_end", "value" },
    { "realtime_start", "realtime_end", "date" } }

FailureKinds == { "transport_error", "http_error", "invalid_json", "no_observations" }

ResponsesOver(V) ==
  { [ kind |-> k, fields |-> {}, obs |-> << >> ] : k \in FailureKinds }
  \cup
  { [ kind |-> "observations", fields |-> f, obs |-> o ] : f \in FieldSets, o \in ObsLists(V) }

\* what the API may answer to a task of the pool, and to a direct call
Responses == ResponsesOver(Values)
DirectResponses == ResponsesOver(DirectValues)

(* ----------------------------- helpers --------------------------------- *)

Range(q) == { q[i] : i \in DOMAIN q }

RECURSIVE Keep(_, _)
\* the subsequence of q at the positions in P, in order
Keep(q, P) ==
  IF q = << >> THEN << >>
  ELSE LET n == Len(q)
           front == Keep(SubSeq(q, 1, n - 1), P)
       IN  IF n \in P THEN Append(front, q[n]) ELSE front

startswith(s, prefix) ==
  Len(s) >= Len(prefix) /\ SubSeq(s, 1, Len(prefix)) = prefix

Digits == { "0", "1", "2", "3", "4", "5", "6", "7", "8", "9" }

Chars(s) == [ i \in 1..Len(s) |-> SubSeq(s, i, i) ]

\* pd.to_numeric(..., errors='coerce').notna() on one string cell: an
\* unsigned decimal literal (digits with at most one point) parses, anything
\* else is coerced to NaN
IsNumeric(s) ==
  LET c == Chars(s)
  IN  /\ \A i \in DOMAIN c : c[i] \in Digits \cup { "." }
      /\ \E i \in DOMAIN c : c[i] \in Digits
      /\ Cardinality({ i \in DOMAIN c : c[i] = "." }) <= 1

(* ---------------------------- DataFrame -------------------------------- *)

EmptyDataFrame == [ index |-> << >>, columns |-> << >>, data |-> << >> ]

\* DataFrame.empty: some axis has length 0
empty(df) == Len(df.index) = 0 \/ Len(df.columns) = 0

RealtimeStamp == "2026-11-05"

FieldCell(rec, f) ==
  IF f = "date" THEN rec.date
  ELSE IF f = "value" THEN rec.value
  ELSE IF f = "note" THEN "x"
  ELSE RealtimeStamp

\* pd.DataFrame(list of dicts): one column per key, one row per dict; no
\* columns at all when the list is empty
FrameOfObservations(fields, obs) ==
  LET cols == IF obs = << >> THEN << >>
              ELSE Keep(FieldOrder, { i \in DOMAIN FieldOrder : FieldOrder[i] \in fields })
  IN  [ index   |-> [ i \in DOMAIN obs |-> i ],
        columns |-> cols,
        data    |-> [ i \in DOMAIN obs |-> [ j \in DOMAIN cols |-> FieldCell(obs[i], cols[j]) ] ] ]

rename(df, old, new) ==
  [ df EXCEPT !.columns = [ j \in DOMAIN df.columns |->
                              IF df.columns[j] = old THEN new ELSE df.columns[j] ] ]

ColumnPos(df, name) == CHOOSE j \in DOMAIN df.columns : df.columns[j] = name

\* df.loc[:, mask]: keep the columns at the positions in P
SelectColumns(df, P) ==
  [ index   |-> df.index,
    columns |-> Keep(df.columns, P),
    data    |-> [ i \in DOMAIN df.data |-> Keep(df.data[i], P) ] ]

\* df[mask]: keep the rows at the positions in P
SelectRows(df, P) ==
  [ index   |-> Keep(df.index, P),
    columns |-> df.columns,
    data    |-> Keep(df.data, P) ]

set_index(df, name) ==
  LET k == ColumnPos(df, name)
  IN  [ index   |-> [ i \in DOMAIN df.data |-> df.data[i][k] ],
        columns |-> Keep(df.columns, DOMAIN df.columns \ { k }),
        data    |-> [ i \in DOMAIN df.data |-> Keep(df.data[i], DOMAIN df.columns \ { k }) ] ]

\* NotRealtime without the prefix test: the mask keeps every column
EveryColumn(df) == DOMAIN df.columns

NotRealtime(df) == { j \in DOMAIN df.columns : ~ startswith(df.columns[j], "realtime") }

drop_realtime(df) == SelectColumns(df, NotRealtime(df))

\* NumericRows without the to_numeric test: no row is filtered out
AllRows(df, name) == DOMAIN df.data

NumericRows(df, name) ==
  LET k == ColumnPos(df, name)
  IN  { i \in DOMAIN df.data : IsNumeric(df.data[i][k]) }

filter_numeric(df, name) == SelectRows(df, NumericRows(df, name))

(* ----------------------------- get_data -------------------------------- *)

Returned(df) == [ kind |-> "returned", df |-> df ]
Raised(e) == [ kind |-> "raised", exc |-> e ]

\* lines 57-67: the table built from the decoded body, or the KeyError of a
\* missing "observations", "date" or "value"
normalise(series_name, resp) ==
  IF resp.kind = "no_observations"
    THEN { Raised("KeyError") }
  ELSE
    LET frame   == FrameOfObservations(resp.fields, resp.obs)
        renamed == rename(frame, "value", series_name)
    IN  IF "date" \notin Range(renamed.columns)
          THEN { Raised("KeyError") }
        ELSE
          LET df == set_index(renamed, "date")
          IN  IF series_name \notin Range(df.columns)
                THEN { Raised("KeyError") }
              ELSE { Returned(drop_realtime(filter_numeric(df, series_name))) }

\* get_data without its except clause
get_data_uncaught(series_name, resp) ==
  IF resp.kind \in { "transport_error", "http_error" }
    THEN { Raised("RequestException") }
  ELSE IF resp.kind = "invalid_json"
    THEN { Raised("RequestException"), Raised("ValueError") }
  ELSE normalise(series_name, resp)

\* The outcomes of get_data(series_id, series_name, api_key) when the API
\* answers resp.  Only requests.RequestException is caught.  response.json()
\* raises a RequestException subclass in requests >= 2.27 and a plain
\* ValueError in earlier releases, so both outcomes are possible for an
\* invalid body.
get_data(series_name, resp) ==
  IF resp.kind \in { "transport_error", "http_error" }
    THEN { Returned(EmptyDataFrame) }
  ELSE IF resp.kind = "invalid_json"
    THEN { Returned(EmptyDataFrame), Raised("ValueError") }
  ELSE normalise(series_name, resp)

(* ------------------------------ merge ---------------------------------- *)

NaN == "NaN"

HasDuplicates(q) == \E i, j \in DOMAIN q : i /= j /\ q[i] = q[j]

RECURSIVE Unique(_)
\* Index.unique(): first occurrences, in order
Unique(q) ==
  IF q = << >> THEN << >>
  ELSE LET n == Len(q)
           front == Unique(SubSeq(q, 1, n - 1))
       IN  IF q[n] \in Range(front) THEN front ELSE Append(front, q[n])

RECURSIVE Flatten(_)
Flatten(qs) ==
  IF qs = << >> THEN << >>
  ELSE Flatten(SubSeq(qs, 1, Len(qs) - 1)) \o qs[Len(qs)]

\* union_indexes(indexes, sort=False): the first index when all are equal,
\* otherwise the distinct labels in order of first appearance
union_indexes(frames) ==
  IF \A k \in DOMAIN frames : frames[k].index = frames[1].index
    THEN frames[1].index
    ELSE Unique(Flatten([ k \in DOMAIN frames |-> frames[k].index ]))

\* one frame's cells on the row of the joined index at position i
AlignedRow(df, labels, i) ==
  IF df.index = labels THEN df.data[i]
  ELSE IF labels[i] \in Range(df.index)
    THEN df.data[CHOOSE r \in DOMAIN df.index : df.index[r] = labels[i]]
    ELSE [ j \in DOMAIN df.columns |-> NaN ]

\* pd.concat(frames, axis=1, join='outer'): ValueError on an empty list;
\* a frame whose index differs from the joined index is reindexed, which
\* raises InvalidIndexError when that frame's index repeats a label
concat(frames) ==
  IF frames = << >> THEN Raised("ValueError")
  ELSE
    LET labels == union_indexes(frames)
    IN  IF \E k \in DOMAIN frames :
             frames[k].index /= labels /\ HasDuplicates(frames[k].index)
          THEN Raised("InvalidIndexError")
          ELSE Returned(
                 [ index   |-> labels,
                   columns |-> Flatten([ k \in DOMAIN frames |-> frames[k].columns ]),
                   data    |-> [ i \in DOMAIN labels |->
                                   Flatten([ k \in DOMAIN frames |->
                                               AlignedRow(frames[k], labels, i) ]) ] ])

DigitValue(c) == CHOOSE n \in 0..9 : SubSeq("0123456789", n + 1, n + 1) = c

RECURSIVE ParseInt(_)
ParseInt(s) ==
  IF Len(s) = 0 THEN 0
  ELSE 10 * ParseInt(SubSeq(s, 1, Len(s) - 1)) + DigitValue(SubSeq(s, Len(s), Len(s)))

\* pd.to_datetime on one ISO "YYYY-MM-DD" label: <<year, month, day>>
to_datetime(s) ==
  << ParseInt(SubSeq(s, 1, 4)), ParseInt(SubSeq(s, 6, 7)), ParseInt(SubSeq(s, 9, 10)) >>

DateLess(a, b) ==
  \/ a[1] < b[1]
  \/ a[1] = b[1] /\ a[2] < b[2]
  \/ a[1] = b[1] /\ a[2] = b[2] /\ a[3] < b[3]

convert_index(df) ==
  [ df EXCEPT !.index = [ i \in DOMAIN df.index |-> to_datetime(df.index[i]) ] ]

RECURSIVE SortedPositions(_, _)
\* the row positions 1..n of index idx in ascending label order, rows with
\* equal labels in their original order
SortedPositions(idx, n) ==
  IF n = 0 THEN << >>
  ELSE LET before == SortedPositions(idx, n - 1)
           k == Cardinality({ p \in DOMAIN before : ~ DateLess(idx[n], idx[before[p]]) })
       IN  SubSeq(before, 1, k) \o << n >> \o SubSeq(before, k + 1, Len(before))

\* sort_index left out: the rows stay in the order of the join
sort_index_skipped(df) == df

\* merged_df.sort_index(inplace=True)
sort_index(df) ==
  LET order == SortedPositions(df.index, Len(df.index))
  IN  [ index   |-> [ i \in DOMAIN order |-> df.index[order[i]] ],
        columns |-> df.columns,
        data    |-> [ i \in DOMAIN order |-> df.data[order[i]] ] ]

\* columns_order iterating the merged table instead of SERIES_IDS
columns_in_merge_order(df) ==
  Keep(df.columns, { j \in DOMAIN df.columns : df.columns[j] \in Range(SERIES_IDS) })

\* columns_order without the restriction to SERIES_IDS
columns_unfiltered(df) == df.columns

\* [col for _, col in SERIES_IDS if col in merged_df.columns]
columns_order(df) ==
  Keep(SERIES_IDS, { k \in DOMAIN SERIES_IDS : SERIES_IDS[k] \in Range(df.columns) })

\* merged_df[columns_order]
reorder_columns(df, names) ==
  [ index   |-> df.index,
    columns |-> names,
    data    |-> [ i \in DOMAIN df.data |->
                    [ k \in DOMAIN names |-> df.data[i][ColumnPos(df, names[k])] ] ] ]

\* lines 108-115 of main: the merged table, or the exception that escapes
merge(frames) ==
  LET joined == concat(frames)
  IN  IF joined.kind = "raised" THEN joined
      ELSE LET sorted == sort_index(drop_realtime(convert_index(joined.df)))
           IN  Returned(reorder_columns(sorted, columns_order(sorted)))

(* ------------------------------ state ---------------------------------- *)

VARIABLES
  pc,                 \* position of main
  future,             \* future_to_series: per series, the task's state and outcome
  cause,              \* per series, the kind of answer its request received
  yielded,            \* futures as_completed has already handed to the loop
  dfs,                \* main's list of non-empty tables, in completion order
  successful_series,  \* main's list of the names of those tables
  merged_df,          \* what lines 108-115 evaluated to
  file,               \* content of economic_indicators.csv
  call,               \* a direct call of get_data: its arguments
  ret                 \* ... and its outcome

vars == << pc, future, cause, yielded, dfs, successful_series, merged_df, file, call, ret >>

NoOutcome == [ kind |-> "none" ]
NoFile == [ kind |-> "absent" ]
NoCall == [ kind |-> "none" ]

main_vars == << pc, future, cause, yielded, dfs, successful_series, merged_df, file >>

Init ==
  /\ pc = "start"
  /\ future = [ s \in Series |-> [ state |-> "unsubmitted", outcome |-> NoOutcome ] ]
  /\ cause = [ s \in Series |-> "none" ]
  /\ yielded = {}
  /\ dfs = << >>
  /\ successful_series = << >>
  /\ merged_df = NoOutcome
  /\ file = NoFile
  /\ call = NoCall
  /\ ret = NoOutcome

(* ------------------------------ main ----------------------------------- *)

\* line 94: one task per configured series is submitted
Submit ==
  /\ pc = "start"
  /\ future' = [ s \in Series |-> [ state |-> "pending", outcome |-> NoOutcome ] ]
  /\ pc' = "collect"
  /\ UNCHANGED << cause, yielded, dfs, successful_series, merged_df, file, call, ret >>

Running == { s \in Series : future[s].state = "running" }

\* a free worker takes the oldest queued task
WorkerStart(s) ==
  /\ future[s].state = "pending"
  /\ \A t \in Series : t < s => future[t].state /= "pending"
  /\ Cardinality(Running) < max_workers
  /\ future' = [ future EXCEPT ![s].state = "running" ]
  /\ UNCHANGED << pc, cause, yielded, dfs, successful_series, merged_df, file, call, ret >>

\* the task of series s runs get_data against whatever the API answers
WorkerFinish(s) ==
  /\ future[s].state = "running"
  /\ \E resp \in Responses :
       \E out \in get_data(SERIES_IDS[s], resp) :
         /\ future' = [ future EXCEPT ![s] = [ state |-> "finished", outcome |-> out ] ]
         /\ cause' = [ cause EXCEPT ![s] = resp.kind ]
  /\ UNCHANGED << pc, yielded, dfs, successful_series, merged_df, file, call, ret >>

\* lines 96-105: one iteration of the as_completed loop
Collect(s) ==
  /\ pc = "collect"
  /\ future[s].state = "finished"
  /\ s \notin yielded
  /\ yielded' = yielded \cup { s }
  /\ IF future[s].outcome.kind = "returned" /\ ~ empty(future[s].outcome.df)
       THEN /\ dfs' = Append(dfs, future[s].outcome.df)
            /\ successful_series' = Append(successful_series, SERIES_IDS[s])
       ELSE UNCHANGED << dfs, successful_series >>
  /\ UNCHANGED << pc, future, cause, merged_df, file, call, ret >>

\* lines 108-115, once the loop and the pool are finished
Merge ==
  /\ pc = "collect"
  /\ yielded = Series
  /\ merged_df' = merge(dfs)
  /\ pc' = IF merge(dfs).kind = "raised" THEN "raised" ELSE "merged"
  /\ UNCHANGED << future, cause, yielded, dfs, successful_series, file, call, ret >>

\* line 118 and save_data
Save ==
  /\ pc = "merged"
  /\ file' = [ kind |-> "written", df |-> merged_df.df ]
  /\ pc' = "done"
  /\ UNCHANGED << future, cause, yielded, dfs, successful_series, merged_df, call, ret >>

Next ==
  \/ Submit
  \/ \E s \in Series : WorkerStart(s)
  \/ \E s \in Series : WorkerFinish(s)
  \/ \E s \in Series : Collect(s)
  \/ Merge
  \/ Save

Spec == Init /\ [][Next]_vars

(* ----------------------- get_data called directly ---------------------- *)

InitGetData ==
  /\ pc = "start"
  /\ future = [ s \in Series |-> [ state |-> "unsubmitted", outcome |-> NoOutcome ] ]
  /\ cause = [ s \in Series |-> "none" ]
  /\ yielded = {}
  /\ dfs = << >>
  /\ successful_series = << >>
  /\ merged_df = NoOutcome
  /\ file = NoFile
  /\ call \in { [ kind |-> "get_data", series_name |-> SERIES_IDS[s], resp |-> r ] :
                  s \in Series, r \in DirectResponses }
  /\ ret = NoOutcome

CallGetData ==
  /\ ret = NoOutcome
  /\ ret' \in get_data(call.series_name, call.resp)
  /\ UNCHANGED << main_vars, call >>

NextGetData == CallGetData

SpecGetData == InitGetData /\ [][NextGetData]_vars

(* ------------------------- vocabulary of the claims -------------------- *)

Finished == pc \in { "done", "raised" }

NameOf(s) == SERIES_IDS[s]

\* the task of series s failed: its request was answered with an HTTP error
\* status, or an exception was raised inside the task
FetchFailed(s) ==
  /\ future[s].state = "finished"
  /\ \/ cause[s] = "http_error"
     \/ future[s].outcome.kind = "raised"

FetchedNonEmpty(s) ==
  /\ future[s].state = "finished"
  /\ future[s].outcome.kind = "returned"
  /\ ~ empty(future[s].outcome.df)

HasRealtimePrefix(c) == Len(c) >= 8 /\ SubSeq(c, 1, 8) = "realtime"

NumericLiterals == { "3.5", "4" }

WellFormed(resp) ==
  resp.kind = "observations" /\ { "date", "value" } \subseteq resp.fields

Permuted(q, f) == [ i \in DOMAIN q |-> q[f[i]] ]

DatesOf(df) == { to_datetime(df.index[i]) : i \in DOMAIN df.index }

(* ------------------------------ claims --------------------------------- *)

\* C1: if the fetch of one series X fails while every other series' fetch
\* returns a non-empty table, main finishes without an exception, no sibling
\* task is cancelled, and the written table has the column of every other
\* series and none for X.
C1_FailedSeriesIsIsolated ==
  Finished =>
    \A x \in Series :
      (FetchFailed(x) /\ \A s \in Series \ { x } : FetchedNonEmpty(s)) =>
        /\ pc = "done"
        /\ file.kind = "written"
        /\ \A s \in Series \ { x } : NameOf(s) \in Range(file.df.columns)
        /\ NameOf(x) \notin Range(file.df.columns)

\* C2: if no series succeeds, main does not fail: the merged table is empty
\* and economic_indicators.csv is written.
C2_EmptyRunStillWrites ==
  (Finished /\ dfs = << >>) =>
    /\ pc = "done"
    /\ file.kind = "written"
    /\ empty(file.df)

\* C3: whatever the completion order, the columns of the merged table appear
\* in the order of SERIES_IDS, restricted to the columns present.
C3_ColumnsInConfiguredOrder ==
  pc = "done" =>
    LET cols == file.df.columns
    IN  \A i, j \in DOMAIN cols :
          i < j =>
            \E a, b \in DOMAIN SERIES_IDS :
              a < b /\ SERIES_IDS[a] = cols[i] /\ SERIES_IDS[b] = cols[j]

C3_Witness ==
  /\ pc = "done"
  /\ Len(file.df.columns) = NumSeries
  /\ \E i, j \in DOMAIN successful_series :
       i < j /\ successful_series[i] = NameOf(2) /\ successful_series[j] = NameOf(1)

\* C4: the result of main does not depend on the completion order: had the
\* same tables been collected in any other order, the same merged table
\* (rows, columns, cells) would have been written, or the same exception
\* would have escaped.
C4_OutputIndependentOfOrder ==
  pc \in { "merged", "done", "raised" } =>
    /\ \A f \in Permutations(DOMAIN dfs) : merge(Permuted(dfs, f)) = merged_df
    /\ pc = "done" => file.df = merged_df.df

C4_Witness ==
  /\ pc = "done"
  /\ Len(dfs) >= 2
  /\ Len(file.df.index) >= 2
  /\ \E j, k \in DOMAIN dfs :
       j < k /\ DateLess(to_datetime(dfs[k].index[1]), to_datetime(dfs[j].index[1]))

\* C5: the dates of the merged table are the union of the dates of the
\* successfully fetched tables, with exactly one row per date, and the cell
\* of a series on a date it does not have is empty.
C5_RowsAreUnionOfDates ==
  pc = "done" =>
    LET out == file.df
    IN  /\ Range(out.index) = UNION { DatesOf(dfs[k]) : k \in DOMAIN dfs }
        /\ ~ HasDuplicates(out.index)
        /\ \A i \in DOMAIN out.index : \A k \in DOMAIN dfs :
             LET cell == out.data[i][ColumnPos(out, successful_series[k])]
             IN  (cell = NaN) <=> (out.index[i] \notin DatesOf(dfs[k]))

\* C6: the columns of the written table are exactly one column per
\* successfully fetched series, named by its display name, and so a subset
\* of the configured names.
C6_ColumnsAreSuccessfulSeries ==
  pc = "done" =>
    /\ Range(file.df.columns) = Range(successful_series)
    /\ ~ HasDuplicates(file.df.columns)
    /\ Range(file.df.columns) \subseteq Range(SERIES_IDS)

C6_Witness ==
  /\ pc = "done"
  /\ Len(successful_series) >= 2
  /\ Len(successful_series) < NumSeries
  /\ \E k \in DOMAIN dfs : "note" \in Range(dfs[k].columns)

\* C7: for a well-formed response, the table get_data returns has exactly
\* the observations whose value is numeric, in the order received: no
\* non-numeric row is kept and no numeric row is dropped.
C7_ExactlyNumericRows ==
  (WellFormed(call.resp) /\ ret.kind = "returned") =>
    LET kept == SelectSeq(call.resp.obs, LAMBDA o : o.value \in NumericLiterals)
        col  == ColumnPos(ret.df, call.series_name)
    IN  /\ call.series_name \in Range(ret.df.columns)
        /\ Len(ret.df.index) = Len(kept)
        /\ \A i \in DOMAIN kept :
             /\ ret.df.index[i] = kept[i].date
             /\ ret.df.data[i][col] = kept[i].value

C7_Witness ==
  /\ call.kind = "get_data"
  /\ WellFormed(call.resp)
  /\ ret.kind = "returned"
  /\ Len(call.resp.obs) = 2
  /\ Len(ret.df.index) = 1
  /\ call.resp.obs[1].value = "."

\* C8: no column whose name starts with "realtime" is present in a table
\* returned by get_data, nor in the merged table main writes.
C8_NoRealtimeColumns ==
  /\ \A s \in Series :
       future[s].outcome.kind = "returned" =>
         \A j \in DOMAIN future[s].outcome.df.columns :
           ~ HasRealtimePrefix(future[s].outcome.df.columns[j])
  /\ file.kind = "written" =>
       \A j \in DOMAIN file.df.columns : ~ HasRealtimePrefix(file.df.columns[j])

C8_Witness ==
  /\ pc = "done"
  /\ \A s \in Series : cause[s] = "observations" /\ FetchedNonEmpty(s)
  /\ NameOf(2) \in Range(file.df.columns)

\* C9 (as stated): get_data never raises and returns an empty table on every
\* fetch or parse failure.
C9_NeverRaises ==
  ret.kind /= "none" =>
    /\ ret.kind = "returned"
    /\ ~ WellFormed(call.resp) => ret.df = EmptyDataFrame

\* C9 (amended): get_data returns an empty table on a fetch failure
\* (transport error, non-success HTTP status).  On a parse failure it never
\* returns data, but it may raise: a body without "observations", or whose
\* observations lack "date" or "value" or are an empty array, raises
\* KeyError, and a body that is not valid JSON gives an empty table or a
\* ValueError.
C9_FailureGivesEmptyOrRaises ==
  ret.kind /= "none" =>
    /\ call.resp.kind \in { "transport_error", "http_error" } =>
         ret = Returned(EmptyDataFrame)
    /\ call.resp.kind = "invalid_json" =>
         ret \in { Returned(EmptyDataFrame), Raised("ValueError") }
    /\ (call.resp.kind = "no_observations"
        \/ (call.resp.kind = "observations" /\ ~ WellFormed(call.resp))
        \/ (call.resp.kind = "observations" /\ call.resp.obs = << >>)) =>
         ret = Raised("KeyError")

C9_Witness ==
  /\ call.kind = "get_data"
  /\ call.resp.kind = "http_error"
  /\ ret = Returned(EmptyDataFrame)

\* C10: a table returned by get_data has unique dates, also when the
\* observations of the response repeat a date.
C10_UniqueDates ==
  ret.kind = "returned" => ~ HasDuplicates(ret.df.index)

====
